---- MODULE Spec2Model ----
(***************************************************************************)
(* Model of rattler_bindings.py: the driver optimized_rattler_build, the   *)
(* log reconciliation and cache cleaning of _clean_output, and the file    *)
(* system under the output directory that both act on.                     *)
(*                                                                         *)
(* A file name is a sequence of string pieces (so that f"{variant}{ext}"   *)
(* is a concatenation), a path is a sequence of names, a log message is a  *)
(* sequence of string pieces whose first piece is the recognised prefix.   *)
(***************************************************************************)
EXTENDS Integers, Sequences, FiniteSets, TLC

VARIABLES
    clean_bld_cache, clean_src_cache, run_conda_index, check,
    package_format, skip_existing,
    logs, code, fs,
    pc, call, err, pkg, ret,
    variant, not_skipped, bld_dir_exists,
    fs0, index_calls, warned, tmp_exists, tmp_lines

argvars == <<clean_bld_cache, clean_src_cache, run_conda_index, check,
             package_format, skip_existing>>
procvars == <<logs, code>>
localvars == <<variant, not_skipped, bld_dir_exists>>
tmpvars == <<tmp_exists, tmp_lines>>
idxvars == <<index_calls, warned>>
vars == <<argvars, procvars, fs, pc, call, err, pkg, ret, localvars, fs0,
          idxvars, tmpvars>>

-----------------------------------------------------------------------------
(* Bounds of the exploration *)

\* number of log events after the "Build variant" event
MaxTail == 2
\* exit codes of the external process are 0..MaxCode
MaxCode == 1

-----------------------------------------------------------------------------
(* Constants of the program *)

SRC_PREFIX == "Copying source from url: "
BLD_PREFIX == "Build variant: "
SKIP_TEXT == "Skipping build for "

None == <<>>

-----------------------------------------------------------------------------
(* Paths and the file system: fs.dirs and fs.files are sets of paths *)

N(s) == <<s>>
Join(p, name) == Append(p, name)
IsUnder(root, q) == Len(q) > Len(root) /\ SubSeq(q, 1, Len(root)) = root
Entries(f) == f.dirs \cup f.files

is_dir(f, p) == p \in f.dirs
is_file(f, p) == p \in f.files
iterdir(f, p) == {q \in Entries(f) : Len(q) = Len(p) + 1 /\ IsUnder(p, q)}
rmdir(f, p) == [f EXCEPT !.dirs = @ \ {p}]
unlink(f, p) == [f EXCEPT !.files = @ \ {p}]
rmtree(f, p) ==
    [dirs |-> {q \in f.dirs : q # p /\ ~IsUnder(p, q)},
     files |-> {q \in f.files : ~IsUnder(p, q)}]
rglob(f, root, name) == {q \in Entries(f) : IsUnder(root, q) /\ q[Len(q)] = name}

\* the text after SRC_PREFIX names a path: Path(src_file_str)
PathOf(s) ==
    CASE s = "/out/src_cache/a.tar" -> <<N("out"), N("src_cache"), N("a.tar")>>
      [] s = "/out/src_cache/b.tar" -> <<N("out"), N("src_cache"), N("b.tar")>>
      [] OTHER -> <<N(s)>>

output_dir == <<N("out")>>

\* lines 61-66 without the emptiness test, the folder removed with its content
RemoveFolder(f, folder) ==
    IF is_dir(f, folder) THEN rmtree(f, folder) ELSE f
\* lines 61-66
_remove_empty_folder(f, folder) ==
    IF is_dir(f, folder) /\ iterdir(f, folder) = {} THEN rmdir(f, folder) ELSE f

-----------------------------------------------------------------------------
(* Log events *)

Event(ts, m) == [timestamp |-> ts, fields |-> [message |-> m]]
_get_msg(log_line) == log_line.fields.message

startswith(m, prefix) == Len(m) > 0 /\ m[1] = prefix
removeprefix(m, prefix) == IF startswith(m, prefix) THEN Tail(m) ELSE m

\* timestamps are in milliseconds since the epoch, UTC; the result is in seconds
_get_local_ts(iso_dt) == iso_dt \div 1000

\* the recipe directory holds recipe.yaml; its content is what is modelled
recipe == [package |-> [name |-> "pkg"]]
_get_package_name(r) == r.package.name

Truthy(v) == v # "False"

Variant(ls) == removeprefix(_get_msg(ls[1 + 1]), BLD_PREFIX)

BldDir(out, r, ls) ==
    Join(Join(out, N("bld")),
         <<"rattler-build_", _get_package_name(r), "_",
           ToString(_get_local_ts(ls[1 + 1].timestamp))>>)

\* lines 110-114 with the skip_existing setting not consulted
NotSkippedAnySetting(skip, ls) ==
    ~(_get_msg(ls[Len(ls)]) = <<SKIP_TEXT>> \o Variant(ls))
\* lines 110-114
NotSkipped(skip, ls) ==
    ~(Truthy(skip) /\ _get_msg(ls[Len(ls)]) = <<SKIP_TEXT>> \o Variant(ls))

\* line 119, with only one of the two disagreements noticed
MismatchOneSided(exists, ns) == exists /\ ~ns
\* line 119, with the comparison the wrong way round
MismatchInverted(exists, ns) == exists = ns
\* line 119: bld_dir_exists != not_skipped
Mismatch(exists, ns) == exists # ns

\* the messages of logs[2:] that carry the source prefix, in order
SrcMsgs(ls) ==
    SelectSeq([i \in 1..(Len(ls) - 2) |-> _get_msg(ls[i + 2])],
              LAMBDA m : startswith(m, SRC_PREFIX))

\* line 123 with the last announcement taken instead of the first
PickLast(msgs) == msgs[Len(msgs)]
\* line 123: next(...) takes the first message the generator yields
PickFirst(msgs) == Head(msgs)

\* line 126: shlex.split of the text after the prefix; the pieces are its words
SplitSrc(src_msg) == removeprefix(src_msg, SRC_PREFIX)

\* lines 123-130 without the is_file test
SourceErrorUnchecked(f, ls) ==
    IF SrcMsgs(ls) = <<>> THEN "StopIteration"
    ELSE IF SplitSrc(PickFirst(SrcMsgs(ls))) = <<>>
    THEN "not enough values to unpack"
    ELSE ""
\* lines 123-130: the error the source lookup ends in, "" when it ends in none
SourceError(f, ls) ==
    IF SrcMsgs(ls) = <<>> THEN "StopIteration"
    ELSE IF SplitSrc(PickFirst(SrcMsgs(ls))) = <<>>
    THEN "not enough values to unpack"
    ELSE IF ~is_file(f, PathOf(Head(SplitSrc(PickFirst(SrcMsgs(ls))))))
    THEN "should not happen"
    ELSE ""
\* lines 126-127: src_file, when SourceError is ""
SrcFile(ls) == PathOf(Head(SplitSrc(PickFirst(SrcMsgs(ls)))))

Ext(fmt) ==
    CASE fmt = "tar-bz2" -> ".tar.bz2"
      [] fmt = "conda" -> ".conda"
      [] OTHER -> "?"

KnownFormat(fmt) == fmt \in {"tar-bz2", "conda"}

Matches(f, out, v, fmt) == rglob(f, out, v \o <<Ext(fmt)>>)

\* json.dumps(line) + "\n"
Dumps(line) == <<"json", line, "\n">>
_dump_jsonl(data) == [i \in 1..Len(data) |-> Dumps(data[i])]

-----------------------------------------------------------------------------
(* What the external process can leave behind: its log and the output tree *)

L0 == Event(1000, <<"Found 1 variants">>)
L1 == Event(1500, <<BLD_PREFIX, "v1">>)
TailEvents ==
    {Event(1600, <<SRC_PREFIX, "/out/src_cache/a.tar", "(cached)">>),
     Event(1700, <<SRC_PREFIX, "/out/src_cache/b.tar">>),
     Event(1800, <<SKIP_TEXT, "v1">>)}

RECURSIVE SeqsUpTo(_, _)
SeqsUpTo(S, n) ==
    IF n = 0 THEN {<<>>}
    ELSE LET shorter == SeqsUpTo(S, n - 1)
         IN shorter \cup {Append(q, e) : q \in shorter, e \in S}

LogSeqs == {<<L0>>} \cup {<<L0, L1>> \o t : t \in SeqsUpTo(TailEvents, MaxTail)}

Bld == Join(output_dir, N("bld"))
SrcCache == Join(output_dir, N("src_cache"))
TheBldDir == Join(Bld, <<"rattler-build_", "pkg", "_", "1">>)
OtherBldDir == Join(Bld, <<"rattler-build_", "pkg", "_", "2">>)
Platform == Join(output_dir, N("linux-64"))
Noarch == Join(output_dir, N("noarch"))
Conda == <<"v1", ".conda">>
TarBz2 == <<"v1", ".tar.bz2">>

Tree(d, f) == [dirs |-> d, files |-> f]
Merge(a, b, c) ==
    [dirs |-> {output_dir} \cup a.dirs \cup b.dirs \cup c.dirs,
     files |-> a.files \cup b.files \cup c.files]

BldTrees ==
    {Tree({}, {}),
     Tree({Bld}, {}),
     Tree({Bld, OtherBldDir}, {}),
     Tree({Bld, TheBldDir}, {}),
     Tree({Bld, TheBldDir}, {Join(TheBldDir, Conda)}),
     Tree({Bld, TheBldDir, OtherBldDir}, {})}
SrcTrees ==
    {Tree({}, {}),
     Tree({SrcCache}, {}),
     Tree({SrcCache}, {Join(SrcCache, N("a.tar"))}),
     Tree({SrcCache}, {Join(SrcCache, N("a.tar")), Join(SrcCache, N("b.tar"))})}
PkgTrees ==
    {Tree({}, {}),
     Tree({Platform}, {Join(Platform, Conda)}),
     Tree({Platform}, {Join(Platform, Conda), Join(Platform, TarBz2)}),
     Tree({Platform, Noarch}, {Join(Platform, Conda), Join(Noarch, Conda)})}

Trees == {Merge(a, b, c) : a \in BldTrees, b \in SrcTrees, c \in PkgTrees}

-----------------------------------------------------------------------------
(* The arguments of optimized_rattler_build *)

Formats == {"conda", "tar-bz2", "zip"}
SkipValues == {"False", "True", "all"}

\* the cleaning arguments vary freely with the driver flags at their
\* defaults, and the driver flags vary freely with the rest at its defaults
Init ==
    /\ clean_bld_cache \in BOOLEAN
    /\ clean_src_cache \in BOOLEAN
    /\ run_conda_index \in BOOLEAN
    /\ check \in BOOLEAN
    /\ package_format \in Formats
    /\ skip_existing \in SkipValues
    /\ \/ run_conda_index /\ check
       \/ clean_bld_cache /\ clean_src_cache /\ package_format = "conda"
            /\ skip_existing = "True"
    /\ logs = <<>>
    /\ code = 0
    /\ fs = Tree({output_dir}, {})
    /\ fs0 = Tree({output_dir}, {})
    /\ pc = "start"
    /\ call = 1
    /\ err = ""
    /\ pkg = None
    /\ ret = None
    /\ variant = None
    /\ not_skipped = TRUE
    /\ bld_dir_exists = FALSE
    /\ index_calls = 0
    /\ warned = FALSE
    /\ tmp_exists = FALSE
    /\ tmp_lines = <<>>

Raise(e) == pc' = "raised" /\ err' = e

\* lines 490 and 510 with the exit code ignored
AfterBuildAlways(c) == "co_check"
\* lines 490 and 510: cleaning follows a zero exit code only
AfterBuild(c) == IF c = 0 THEN "co_check" ELSE "failed"

\* lines 501-503 with run_conda_index ignored
RunsIndexIfAvailable(rci, has_conda) == has_conda
\* lines 501-503: the index is updated when asked for and available
RunsIndex(rci, has_conda) == rci /\ has_conda
\* lines 501, 508: the warning when asked for and unavailable
Warns(rci, has_conda) == rci /\ ~has_conda

-----------------------------------------------------------------------------
(* rattler_build: the external process runs, leaving its log, its exit    *)
(* code and the output tree; or the call fails before or after the spawn  *)

RattlerBuild ==
    /\ pc = "start"
    /\ \/ /\ \E e \in {"No conda prefix found.", "rattler-build not found.",
                       "stdout should be empty"} : Raise(e)
          /\ UNCHANGED <<procvars, fs, fs0>>
       \/ /\ logs' \in LogSeqs
          /\ code' \in 0..MaxCode
          /\ fs' \in Trees
          /\ fs0' = fs'
          /\ pc' = AfterBuild(code')
          /\ UNCHANGED err
    /\ UNCHANGED <<argvars, call, pkg, ret, localvars, idxvars, tmpvars>>

-----------------------------------------------------------------------------
(* _clean_output *)

\* lines 99-120: the session is derived from the log and checked against the disk
CleanOutputCheck ==
    /\ pc = "co_check"
    /\ IF Len(logs) < 2
       THEN /\ Raise("IndexError")
            /\ UNCHANGED localvars
       ELSE /\ variant' = Variant(logs)
            /\ not_skipped' = NotSkipped(skip_existing, logs)
            /\ bld_dir_exists' = is_dir(fs, BldDir(output_dir, recipe, logs))
            /\ IF Mismatch(bld_dir_exists', not_skipped')
               THEN Raise("bld dir exists but it shouldnt or vice versa")
               ELSE pc' = "co_src" /\ UNCHANGED err
    /\ UNCHANGED <<argvars, procvars, fs, fs0, call, pkg, ret, idxvars, tmpvars>>

\* lines 122-136: the source cache file of a session that was not skipped
CleanOutputSource ==
    /\ pc = "co_src"
    /\ IF ~not_skipped
       THEN pc' = "co_srcdir" /\ UNCHANGED <<err, fs>>
       ELSE IF SourceError(fs, logs) # ""
       THEN Raise(SourceError(fs, logs)) /\ UNCHANGED fs
       ELSE /\ fs' = IF clean_src_cache THEN unlink(fs, SrcFile(logs)) ELSE fs
            /\ pc' = "co_srcdir"
            /\ UNCHANGED err
    /\ UNCHANGED <<argvars, procvars, fs0, call, pkg, ret, localvars, idxvars,
                   tmpvars>>

\* lines 138-139
CleanOutputSrcFolder ==
    /\ pc = "co_srcdir"
    /\ fs' = IF clean_src_cache THEN _remove_empty_folder(fs, SrcCache) ELSE fs
    /\ pc' = "co_bld"
    /\ UNCHANGED <<argvars, procvars, fs0, call, err, pkg, ret, localvars,
                   idxvars, tmpvars>>

\* lines 141-144
CleanOutputBldCache ==
    /\ pc = "co_bld"
    /\ fs' = IF clean_bld_cache /\ bld_dir_exists
             THEN rmtree(fs, BldDir(output_dir, recipe, logs))
             ELSE fs
    /\ pc' = "co_blddir"
    /\ UNCHANGED <<argvars, procvars, fs0, call, err, pkg, ret, localvars,
                   idxvars, tmpvars>>

\* line 145
CleanOutputBldFolder ==
    /\ pc = "co_blddir"
    /\ fs' = IF clean_bld_cache THEN _remove_empty_folder(fs, Bld) ELSE fs
    /\ pc' = "co_resolve"
    /\ UNCHANGED <<argvars, procvars, fs0, call, err, pkg, ret, localvars,
                   idxvars, tmpvars>>

\* lines 149-161: the one artifact named {variant}{ext} under the output tree
CleanOutputResolve ==
    /\ pc = "co_resolve"
    /\ IF ~KnownFormat(package_format)
       THEN Raise("Unknown package-format") /\ UNCHANGED pkg
       ELSE LET matches == Matches(fs, output_dir, variant, package_format)
            IN IF Cardinality(matches) # 1
               THEN Raise("none or multiple output packages found")
                    /\ UNCHANGED pkg
               ELSE /\ pkg' = CHOOSE m \in matches : TRUE
                    /\ pc' = IF call = 1 THEN "index" ELSE "again_done"
                    /\ UNCHANGED err
    /\ UNCHANGED <<argvars, procvars, fs, fs0, call, ret, localvars, idxvars,
                   tmpvars>>

-----------------------------------------------------------------------------
(* optimized_rattler_build after the process has exited *)

\* lines 501-509 and 518: optional indexing, then the result
RunCondaIndex ==
    /\ pc = "index"
    /\ \E has_conda \in BOOLEAN :
          /\ index_calls' = IF RunsIndex(run_conda_index, has_conda)
                            THEN index_calls + 1 ELSE index_calls
          /\ warned' = (warned \/ Warns(run_conda_index, has_conda))
    /\ ret' = <<pkg, logs, code>>
    /\ pc' = "returned"
    /\ UNCHANGED <<argvars, procvars, fs, fs0, call, err, pkg, localvars,
                   tmpvars>>

\* lines 510-513, 518: a failed build is handed back when check is false
FailedReturn ==
    /\ pc = "failed"
    /\ ~check
    /\ ret' = <<pkg, logs, code>>
    /\ pc' = "returned"
    /\ UNCHANGED <<argvars, procvars, fs, fs0, call, err, pkg, localvars,
                   idxvars, tmpvars>>

\* lines 514-516: the log is written to a NamedTemporaryFile("w")
FailedDump ==
    /\ pc = "failed"
    /\ check
    /\ tmp_exists' = TRUE
    /\ tmp_lines' = _dump_jsonl(logs)
    /\ pc' = "tmp_written"
    /\ UNCHANGED <<argvars, procvars, fs, fs0, call, err, pkg, ret, localvars,
                   idxvars>>

\* the end of the with block closes the file, and closing it deletes it
\* (NamedTemporaryFile's delete defaults to True)
TmpClose ==
    /\ pc = "tmp_written"
    /\ tmp_exists' = FALSE
    /\ pc' = "tmp_closed"
    /\ UNCHANGED <<argvars, procvars, fs, fs0, call, err, pkg, ret, localvars,
                   idxvars, tmp_lines>>

\* line 517
FailedRaise ==
    /\ pc = "tmp_closed"
    /\ Raise("rattler-build failed. logs written to: tmp")
    /\ UNCHANGED <<argvars, procvars, fs, fs0, call, pkg, ret, localvars,
                   idxvars, tmpvars>>

\* a caller runs _clean_output once more on the same arguments and log
CleanAgain ==
    /\ pc = "returned"
    /\ code = 0
    /\ call = 1
    /\ call' = 2
    /\ fs0' = fs
    /\ pc' = "co_check"
    /\ UNCHANGED <<argvars, procvars, fs, err, pkg, ret, localvars, idxvars,
                   tmpvars>>

Next ==
    \/ RattlerBuild
    \/ CleanOutputCheck
    \/ CleanOutputSource
    \/ CleanOutputSrcFolder
    \/ CleanOutputBldCache
    \/ CleanOutputBldFolder
    \/ CleanOutputResolve
    \/ RunCondaIndex
    \/ FailedReturn
    \/ FailedDump
    \/ TmpClose
    \/ FailedRaise
    \/ CleanAgain

Spec == Init /\ [][Next]_vars

TypeOK == pc \in {"start", "raised", "co_check", "co_src", "co_srcdir", "co_bld",
                  "co_blddir", "co_resolve", "index", "returned", "failed",
                  "tmp_written", "tmp_closed", "again_done"}

-----------------------------------------------------------------------------
(* Vocabulary of the properties *)

BuildErrors == {"No conda prefix found.", "rattler-build not found.",
                "stdout should be empty"}
MismatchError == "bld dir exists but it shouldnt or vice versa"
SourceErrors == {"StopIteration", "not enough values to unpack", "should not happen"}
ResolveErrors == {"Unknown package-format", "none or multiple output packages found"}
FailedError == "rattler-build failed. logs written to: tmp"

\* _clean_output has been entered: fs0 is the output tree it was entered with
Entered == code = 0 /\ pc # "start" /\ ~(pc = "raised" /\ err \in BuildErrors)
\* its consistency check has been evaluated on a log with a variant line
CheckActed == Entered /\ pc # "co_check" /\ Len(logs) >= 2
PassedCheck == CheckActed /\ ~(pc = "raised" /\ err = MismatchError)
\* it has returned an artifact
Succeeded == Entered /\ pc \in {"index", "returned", "again_done"}

ExistsAtEntry == is_dir(fs0, BldDir(output_dir, recipe, logs))
SkippedByLog ==
    /\ skip_existing \in {"True", "all"}
    /\ _get_msg(logs[Len(logs)])
         = <<SKIP_TEXT>> \o removeprefix(_get_msg(logs[2]), BLD_PREFIX)
Removed == Entries(fs0) \ Entries(fs)

\* C1: when the skip status derived from the log disagrees with the existence
\* of the build directory, _clean_output ends in the mismatch error and the
\* output tree is as it was on entry, whatever the cleanup flags
C1_MismatchFatalNothingDeleted ==
    (Entered /\ Len(logs) >= 2
       /\ ExistsAtEntry # NotSkipped(skip_existing, logs))
    => /\ fs = fs0
       /\ pc = "co_check" \/ (pc = "raised" /\ err = MismatchError)

C1_Witness ==
    /\ pc = "raised" /\ err = MismatchError
    /\ clean_bld_cache /\ clean_src_cache
    /\ ExistsAtEntry /\ ~NotSkipped(skip_existing, logs)
    /\ fs0.files # {} /\ fs = fs0

\* C2 as stated: a reconciliation that passes the consistency check has its
\* skip flag true exactly when the build directory exists
C2_Original_SkipIffBldDirExists ==
    PassedCheck => (~NotSkipped(skip_existing, logs) <=> ExistsAtEntry)

\* C2 amended: a reconciliation passes the consistency check exactly when the
\* skip flag is true and the build directory is absent, or the skip flag is
\* false and the build directory exists; every other combination ends in the
\* mismatch error
C2_SkipIffBldDirAbsent ==
    CheckActed =>
      /\ PassedCheck <=> (~NotSkipped(skip_existing, logs) <=> ~ExistsAtEntry)
      /\ ~PassedCheck => pc = "raised" /\ err = MismatchError

C2_Witness ==
    /\ PassedCheck /\ pc = "co_src"
    /\ ~NotSkipped(skip_existing, logs) /\ ~ExistsAtEntry

\* C3 as stated: once artifact resolution has been reached with a known
\* format, exactly one file named {variant}{ext} under the output directory
\* at entry means that file is returned, and zero or several mean a fatal error
InitialArtifacts ==
    Matches(fs0, output_dir, removeprefix(_get_msg(logs[2]), BLD_PREFIX),
            package_format) \cap fs0.files
ResolveActed ==
    /\ PassedCheck /\ KnownFormat(package_format)
    /\ Succeeded \/ (pc = "raised" /\ err \in ResolveErrors)
C3_Original_ArtifactAtEntryResolved ==
    ResolveActed =>
      IF Cardinality(InitialArtifacts) = 1
      THEN Succeeded /\ pkg \in InitialArtifacts
      ELSE pc = "raised"

\* C4 as stated: a second call after a successful one raises no error and
\* leaves the output tree as the first call left it
C4_Original_SecondCallNoError ==
    call = 2 => pc # "raised" /\ fs = fs0

\* C4 amended: a second call after a successful one never changes the output
\* tree; it returns without error when the session was skipped or both cleanup
\* flags are false, and ends in a fatal error when the session was not skipped
\* and a cleanup flag is true
C4_SecondCallChangesNothing ==
    call = 2 =>
      /\ fs = fs0
      /\ pc \in {"raised", "again_done"} =>
           (pc = "raised" <=>
              /\ NotSkipped(skip_existing, logs)
              /\ clean_bld_cache \/ clean_src_cache)
      /\ pc = "raised" => err \in {MismatchError, "should not happen"}
      /\ pc = "again_done" => pkg = ret[1]

C4_Witness ==
    /\ call = 2 /\ pc = "again_done"
    /\ clean_bld_cache /\ clean_src_cache
    /\ ~NotSkipped(skip_existing, logs)

\* C5: a step of _clean_output removes nothing but the source cache file named
\* in the log (clean_src_cache, session not skipped), the build directory and
\* what it holds (clean_bld_cache), and the folders src_cache and bld when
\* their flag is set and they hold no entry at that moment; what remains is
\* still a tree
C5_CleaningFrame ==
    [][/\ \A q \in Entries(fs) \ Entries(fs') :
            \/ /\ clean_src_cache /\ not_skipped
               /\ q \in fs.files
               /\ q = PathOf(Head(Tail(Head(SrcMsgs(logs)))))
            \/ /\ clean_bld_cache
               /\ q = TheBldDir \/ IsUnder(TheBldDir, q)
               /\ TheBldDir = BldDir(output_dir, recipe, logs)
            \/ clean_src_cache /\ q = SrcCache /\ iterdir(fs, q) = {}
            \/ clean_bld_cache /\ q = Bld /\ iterdir(fs, q) = {}
       /\ \A q \in Entries(fs') :
            Len(q) > 1 => SubSeq(q, 1, Len(q) - 1) \in fs'.dirs
      ]_vars

C5_Witness ==
    /\ pc = "returned" /\ code = 0 /\ call = 1
    /\ clean_bld_cache /\ clean_src_cache
    /\ Join(SrcCache, N("a.tar")) \in Removed
    /\ Join(SrcCache, N("b.tar")) \in fs.files
    /\ TheBldDir \in Removed
    /\ OtherBldDir \in fs.dirs

\* C6: after a non-zero exit code nothing is reconciled, deleted or indexed;
\* with check false the call returns (None, logs, code), with check true it
\* raises instead of returning
C6_FailedBuildUntouched ==
    (pc # "start" /\ code # 0) =>
      /\ fs = fs0
      /\ variant = None /\ pkg = None
      /\ index_calls = 0 /\ ~warned
      /\ pc \in {"failed", "tmp_written", "tmp_closed", "raised", "returned"}
      /\ pc = "returned" => ~check /\ ret = <<None, logs, code>>
      /\ pc = "raised" => check /\ err = FailedError
      /\ check => pc # "returned"
      /\ ~check => pc \in {"failed", "returned"}

C6_Witness ==
    /\ pc = "returned" /\ code # 0 /\ ~check
    /\ Len(logs) > 2 /\ fs.files # {}

\* C7 as stated: when the strict failure is raised, the temporary file named
\* in the message exists and holds every log event, one record per line
C7_Original_LogFileExistsAtRaise ==
    (pc = "raised" /\ err = FailedError) =>
      /\ tmp_exists
      /\ tmp_lines = [i \in 1..Len(logs) |-> <<"json", logs[i], "\n">>]

\* the log events after index 1 that carry the source prefix
SrcEventIndexes == {i \in 3..Len(logs) : startswith(_get_msg(logs[i]), SRC_PREFIX)}
FirstSrcIndex == CHOOSE i \in SrcEventIndexes : \A j \in SrcEventIndexes : i <= j
FirstSrcPath == PathOf(_get_msg(logs[FirstSrcIndex])[2])
\* the source lookup of a session that was not skipped has run
SourceActed ==
    /\ PassedCheck /\ NotSkipped(skip_existing, logs)
    /\ pc # "co_src"

C9_SkipDetection ==
    CheckActed =>
      /\ not_skipped = ~SkippedByLog
      /\ variant = removeprefix(_get_msg(logs[2]), BLD_PREFIX)
      /\ (SkippedByLog /\ ~ExistsAtEntry) =>
           /\ PassedCheck
           /\ pc = "raised" => err \in ResolveErrors
           /\ fs.files = fs0.files

C9_Witness ==
    /\ CheckActed /\ SkippedByLog /\ ~ExistsAtEntry
    /\ clean_src_cache
    /\ SrcEventIndexes # {}
    /\ FirstSrcPath \in fs.files
    /\ pc = "returned"

\* C10: the index is updated at most once, only when run_conda_index is set,
\* the exit code was zero and _clean_output had returned an artifact; when
\* indexing is asked for and unavailable the call warns and still returns the
\* artifact, the log and the exit code
C10_IndexOnlyAfterSuccess ==
    /\ index_calls <= 1
    /\ index_calls = 1 =>
         /\ run_conda_index /\ code = 0 /\ pkg # None /\ ~warned
         /\ call = 2 \/ pc = "returned"
    /\ warned =>
         /\ run_conda_index /\ code = 0 /\ index_calls = 0
         /\ ret = <<pkg, logs, code>> /\ pkg # None
         /\ call = 2 \/ pc = "returned"
    /\ (pc = "returned" /\ code = 0 /\ run_conda_index) =>
         (index_calls = 1 \/ warned)
    /\ (pc = "raised" /\ call = 1) => index_calls = 0 /\ ~warned

C10_Witness ==
    /\ pc = "returned" /\ call = 1
    /\ index_calls = 1
    /\ ret = <<pkg, logs, code>>

\* C11 as stated: when _clean_output fails in artifact resolution (unknown
\* format, or zero or several files named {variant}{ext}), the build directory
\* and the source cache file that existed on entry still exist
C11_Original_NothingDeletedBeforeResolution ==
    (PassedCheck /\ pc = "raised" /\ err \in ResolveErrors) =>
      /\ ExistsAtEntry => is_dir(fs, BldDir(output_dir, recipe, logs))
      /\ NotSkipped(skip_existing, logs) => FirstSrcPath \in fs.files

====
